---- MODULE Spec2Model ----
(***************************************************************************)
(* ClangCompleter (cpp/ycm/ClangCompleter.cpp): the threads of the async   *)
(* completion engine and the state they share.                             *)
(*                                                                         *)
(*   caller      UpdateTranslationUnitAsync,                                *)
(*               CandidatesForQueryAndLocationInFileAsync, EnableThreading *)
(*   diag        a caller of DiagnosticsForFile                            *)
(*   parse       FileParseThreadMain                                       *)
(*   clang       ClangCompletionsThreadMain                                *)
(*   1..N        SortingThreadMain                                         *)
(*                                                                         *)
(* A critical section that holds a mutex over plain assignments only       *)
(* (file_parse_task_mutex_, clang_data_ready_mutex_) is one step.          *)
(* clang_access_mutex_ and latest_clang_results_shared_mutex_ are held     *)
(* across task execution and are state.  A condition wait whose predicate  *)
(* is tested under the mutex the notifier holds is a step enabled when the *)
(* predicate holds.                                                        *)
(***************************************************************************)
EXTENDS Integers, FiniteSets, Sequences, TLC

\* Bound of the model: calls of CandidatesForQueryAndLocationInFileAsync.
MaxRequests == 2
\* threads_to_create of InitThreads.
NumSortingThreads == 2

\* Filenames given to UpdateTranslationUnitAsync.
Files == {"a.c", "b.c"}
SortingThreads == 1..NumSortingThreads
RequestIds == 1..MaxRequests

\* An empty shared_ptr / empty mailbox slot.
NoTask == 0
\* file_parse_task_ is NULL.
NullParseTask == "null"
\* latest_clang_results_ after construction: an empty vector, written in two
\* parts so that a torn read is a state.
EmptyResults == <<0, 0>>

VARIABLES
  threading_enabled_,      \* bool
  clang_data_ready_,       \* bool
  file_parse_task_,        \* the file-analysis slot
  file_parse_notified,     \* notify_all on file_parse_task_condition_variable_
                           \* since the parse thread last took a task
  sorting_task_,           \* ConcurrentLatestValue: latest ranking task
  clang_completions_task_, \* ConcurrentLatestValue: latest extraction task
  latest_clang_results_,   \* the cache, <<first part, second part>>
  clang_access_mutex_,     \* owner of the analyzer lock, or "none"
  results_writer,          \* latest_clang_results_shared_mutex_ held exclusively
  results_readers,         \* sorting threads holding it shared
  analyzer_users,          \* who is reading or writing the translation units
  interruption_requested,  \* per sorting thread: boost interruption flag
  sort_pc, sort_task, sort_part,
  clang_pc, clang_task,
  clang_future,            \* what the future of the extraction task holds
  parse_pc,
  caller_pc, caller_req, caller_query_empty, caller_future,
  diag_pc,
  diag_result,             \* what DiagnosticsForFile last returned
  calls,                   \* how many submit calls were made
  last_context,            \* request that last reset readiness
  sort_invocations,        \* per ranking task some shared_ptr refers to: times
                           \* ( *task )() was called
  clang_invocations,       \* the same per extraction task
  terminated               \* an exception left a thread function: std::terminate

vars == << threading_enabled_, clang_data_ready_, file_parse_task_,
           file_parse_notified, sorting_task_, clang_completions_task_,
           latest_clang_results_, clang_access_mutex_, results_writer,
           results_readers, analyzer_users, interruption_requested,
           sort_pc, sort_task, sort_part, clang_pc, clang_task, clang_future,
           parse_pc,
           caller_pc, caller_req, caller_query_empty, caller_future,
           diag_pc, diag_result, calls, last_context,
           sort_invocations, clang_invocations, terminated >>

\* Groups used in UNCHANGED.
sharedVars == << clang_data_ready_, sorting_task_, clang_completions_task_,
                 latest_clang_results_ >>
lockVars == << clang_access_mutex_, results_writer, results_readers,
               analyzer_users >>
sortVars == << interruption_requested, sort_pc, sort_task, sort_part,
               sort_invocations >>
clangVars == << clang_pc, clang_task, clang_future, clang_invocations >>
parseVars == << parse_pc >>
slotVars == << file_parse_task_, file_parse_notified >>
callerVars == << caller_pc, caller_req, caller_query_empty, caller_future,
                 calls, last_context >>
diagVars == << diag_pc, diag_result >>

\* ClangCompleter::ClangCompleter: flags false, no thread started.
Init ==
  /\ threading_enabled_ = FALSE
  /\ clang_data_ready_ = FALSE
  /\ file_parse_task_ = NullParseTask
  /\ file_parse_notified = FALSE
  /\ sorting_task_ = NoTask
  /\ clang_completions_task_ = NoTask
  /\ latest_clang_results_ = EmptyResults
  /\ clang_access_mutex_ = "none"
  /\ results_writer = FALSE
  /\ results_readers = {}
  /\ analyzer_users = {}
  /\ interruption_requested = [t \in SortingThreads |-> FALSE]
  /\ sort_pc = [t \in SortingThreads |-> "not_started"]
  /\ sort_task = [t \in SortingThreads |-> NoTask]
  /\ sort_part = [t \in SortingThreads |-> 0]
  /\ clang_pc = "not_started"
  /\ clang_task = NoTask
  /\ clang_future = "none"
  /\ parse_pc = "not_started"
  /\ caller_pc = "idle"
  /\ caller_req = 0
  /\ caller_query_empty = FALSE
  /\ caller_future = "none"
  /\ diag_pc = "idle"
  /\ diag_result = "none"
  /\ calls = 0
  /\ last_context = 0
  /\ sort_invocations = [r \in RequestIds |-> 0]
  /\ clang_invocations = [r \in RequestIds |-> 0]
  /\ terminated = FALSE

\* EnableThreading and InitThreads: the flag, then every thread at the top of
\* its loop.
EnableThreading ==
  /\ ~terminated
  /\ caller_pc = "idle"
  /\ ~threading_enabled_
  /\ threading_enabled_' = TRUE
  /\ sort_pc' = [t \in SortingThreads |-> "check_ready"]
  /\ clang_pc' = "get"
  /\ parse_pc' = "wait_task"
  /\ UNCHANGED << sharedVars, lockVars, slotVars, callerVars, diagVars,
                  interruption_requested, sort_task, sort_part,
                  sort_invocations, clang_task, clang_future,
                  clang_invocations, terminated >>

(***************************************************************************)
(* ConcurrentLatestValue (ConcurrentLatestValue.h), the mailbox of         *)
(* sorting_task_ and clang_completions_task_: Get blocks until a value has *)
(* been set and returns the current value without removing it.             *)
(***************************************************************************)

\* Get can return: a value has been set.
LatestValueReady(slot) == slot # NoTask

\* A Get that takes the value out of the slot, as a queue would.
LatestValueRemoved(slot) == NoTask

\* The slot after a Get that returned its value.
LatestValueAfterGet(slot) == slot

(***************************************************************************)
(* packaged_task: operator() on a task that has already been started throws *)
(* task_already_started.                                                   *)
(***************************************************************************)
AlreadyStarted(invocations, task) == invocations[task] >= 1

\* One more call of operator(), counted up to two.
Invoked(invocations, task) ==
  [invocations EXCEPT ![task] = IF @ >= 1 THEN 2 ELSE 1]

\* shared_ptr: a task that neither a mailbox nor a thread's local refers to is
\* destroyed, and its record with it.
Release(invocations, refs) ==
  [r \in RequestIds |-> IF r \in refs THEN invocations[r] ELSE 0]

\* The ranking tasks referred to by mailbox value m and the threads' locals
\* held.
SortTaskRefs(m, held) == {m} \cup {held[t] : t \in SortingThreads}

(***************************************************************************)
(* The caller: UpdateTranslationUnitAsync                                  *)
(***************************************************************************)

\* Lines 188-189 when file_parse_task_ is set: return.
UpdateDropped ==
  UNCHANGED << file_parse_task_, file_parse_notified >>

\* Lines 191-192: install the task for filename f and notify_all.
UpdateInstall(f) ==
  /\ file_parse_task_' = f
  /\ file_parse_notified' = TRUE

\* UpdateTranslationUnitAsync without the test of line 188: the task is
\* always installed.
UpdateWithoutCheck(f) ==
  /\ ~terminated
  /\ caller_pc = "idle"
  /\ UpdateInstall(f)
  /\ UNCHANGED << threading_enabled_, sharedVars, lockVars, sortVars,
                  clangVars, parseVars, diagVars, callerVars, terminated >>

\* UpdateTranslationUnitAsync that drops a request only for the filename of
\* the task in the slot, and installs any other.
UpdatePerFilename(f) ==
  /\ ~terminated
  /\ caller_pc = "idle"
  /\ IF file_parse_task_ = f
       THEN UpdateDropped
       ELSE UpdateInstall(f)
  /\ UNCHANGED << threading_enabled_, sharedVars, lockVars, sortVars,
                  clangVars, parseVars, diagVars, callerVars, terminated >>

\* UpdateTranslationUnitAsync( filename = f ), under file_parse_task_mutex_.
UpdateTranslationUnitAsync(f) ==
  /\ ~terminated
  /\ caller_pc = "idle"
  /\ IF file_parse_task_ # NullParseTask
       THEN UpdateDropped
       ELSE UpdateInstall(f)
  /\ UNCHANGED << threading_enabled_, sharedVars, lockVars, sortVars,
                  clangVars, parseVars, diagVars, caller_pc, caller_req,
                  caller_query_empty, caller_future, calls, last_context,
                  terminated >>

(***************************************************************************)
(* The caller: CandidatesForQueryAndLocationInFileAsync                    *)
(***************************************************************************)

\* SubmitEntry without the test of line 243.
SubmitEntryUnchecked(query_empty) ==
  /\ calls' = calls + 1
  /\ caller_future' = "none"
  /\ caller_req' = calls + 1
  /\ caller_query_empty' = query_empty
  /\ caller_pc' = IF query_empty THEN "probe" ELSE "set_sorting"

\* SubmitEntry that sends every query, empty or not, to the busy probe.
SubmitEntryAlwaysProbe(query_empty) ==
  /\ calls' = calls + 1
  /\ IF ~threading_enabled_
       THEN /\ caller_future' = "unresolved"
            /\ UNCHANGED << caller_pc, caller_req, caller_query_empty >>
       ELSE /\ caller_future' = "none"
            /\ caller_req' = calls + 1
            /\ caller_query_empty' = query_empty
            /\ caller_pc' = "probe"

\* Lines 243-246: without threading return Future() at once; otherwise go on
\* to the busy probe (empty query) or straight to the sorting task.
SubmitEntry(query_empty) ==
  /\ calls' = calls + 1
  /\ IF ~threading_enabled_
       THEN /\ caller_future' = "unresolved"
            /\ UNCHANGED << caller_pc, caller_req, caller_query_empty >>
       ELSE /\ caller_future' = "none"
            /\ caller_req' = calls + 1
            /\ caller_query_empty' = query_empty
            /\ caller_pc' = IF query_empty THEN "probe" ELSE "set_sorting"

Submit(query_empty) ==
  /\ ~terminated
  /\ caller_pc = "idle"
  /\ calls < MaxRequests
  /\ SubmitEntry(query_empty)
  /\ UNCHANGED << threading_enabled_, sharedVars, lockVars, sortVars,
                  clangVars, parseVars, slotVars, diagVars,
                  last_context, terminated >>

\* The probe with its answer ignored: the request goes on although the lock
\* is held.
ProbeIgnored ==
  /\ caller_pc' = "reset"
  /\ UNCHANGED << caller_future, caller_req, caller_query_empty,
                  clang_access_mutex_, clang_data_ready_, sorting_task_,
                  clang_completions_task_, latest_clang_results_,
                  interruption_requested >>

\* UpdatingTranslationUnit, line 139: the try-lock.  Busy: line 250 returns
\* Future().  Free: the probe owns the lock until it returns.
UpdatingTranslationUnit ==
  /\ IF clang_access_mutex_ # "none"
       THEN /\ caller_future' = "unresolved"
            /\ caller_pc' = "idle"
            /\ caller_req' = 0
            /\ caller_query_empty' = FALSE
            /\ UNCHANGED clang_access_mutex_
       ELSE /\ clang_access_mutex_' = "caller"
            /\ caller_pc' = "probe_locked"
            /\ UNCHANGED << caller_future, caller_req, caller_query_empty >>
  /\ UNCHANGED << clang_data_ready_, sorting_task_, clang_completions_task_,
                  latest_clang_results_, interruption_requested >>

CallerProbe ==
  /\ ~terminated
  /\ caller_pc = "probe"
  /\ UpdatingTranslationUnit
  /\ UNCHANGED << threading_enabled_, results_writer, results_readers,
                  analyzer_users, sort_pc, sort_task, sort_part,
                  sort_invocations, clangVars, parseVars,
                  slotVars, diagVars, calls, last_context, terminated >>

\* The probe returns without releasing the lock.
ProbeKeepsLock ==
  /\ clang_access_mutex_' = clang_access_mutex_
  /\ caller_pc' = "reset"

\* UpdatingTranslationUnit, line 140-141: the unique_lock is destroyed on
\* return.
ProbeUnlock ==
  /\ clang_access_mutex_' = "none"
  /\ caller_pc' = "reset"

CallerProbeReturn ==
  /\ ~terminated
  /\ caller_pc = "probe_locked"
  /\ ProbeUnlock
  /\ UNCHANGED << threading_enabled_, sharedVars, results_writer,
                  results_readers, analyzer_users, sortVars, clangVars,
                  parseVars, slotVars, diagVars, caller_req,
                  caller_query_empty, caller_future, calls,
                  last_context, terminated >>

\* Lines 252-255: clang_data_ready_ = false under clang_data_ready_mutex_.
CallerResetReady ==
  /\ ~terminated
  /\ caller_pc = "reset"
  /\ clang_data_ready_' = FALSE
  /\ last_context' = caller_req
  /\ caller_pc' = "interrupt"
  /\ UNCHANGED << threading_enabled_, sorting_task_, clang_completions_task_,
                  latest_clang_results_, lockVars, sortVars, clangVars,
                  parseVars, slotVars, diagVars, caller_req,
                  caller_query_empty, caller_future, calls,
                  terminated >>

\* Line 260: sorting_threads_.interrupt_all() requests the interruption of
\* every sorting thread.
CallerInterruptAll ==
  /\ ~terminated
  /\ caller_pc = "interrupt"
  /\ interruption_requested' = [t \in SortingThreads |-> TRUE]
  /\ caller_pc' = "set_sorting"
  /\ UNCHANGED << threading_enabled_, sharedVars, lockVars, sort_pc,
                  sort_task, sort_part, sort_invocations,
                  clangVars, parseVars, slotVars, diagVars, caller_req,
                  caller_query_empty, caller_future, calls,
                  last_context, terminated >>

\* The request goes on to the extraction task without having set the sorting
\* task.
CallerSetExtractionOnly ==
  /\ ~terminated
  /\ caller_pc = "set_sorting"
  /\ IF caller_query_empty
       THEN /\ caller_pc' = "set_clang"
            /\ UNCHANGED << caller_future, caller_req, caller_query_empty,
                            sorting_task_, sort_invocations >>
       ELSE /\ caller_pc' = "idle"
            /\ caller_future' = "valid"
            /\ caller_req' = 0
            /\ caller_query_empty' = FALSE
            /\ sorting_task_' = caller_req
            /\ sort_invocations' =
                 Release(sort_invocations, SortTaskRefs(caller_req, sort_task))
  /\ UNCHANGED << threading_enabled_, clang_data_ready_,
                  clang_completions_task_, latest_clang_results_, lockVars,
                  interruption_requested, sort_pc, sort_task, sort_part,
                  clangVars, parseVars, slotVars, diagVars, calls,
                  last_context, terminated >>

\* Lines 267-281: sorting_task_.Set( task ); with a non-empty query line 301
\* returns the future.
CallerSetSortingTask ==
  /\ ~terminated
  /\ caller_pc = "set_sorting"
  /\ sorting_task_' = caller_req
  /\ sort_invocations' =
       Release(sort_invocations, SortTaskRefs(caller_req, sort_task))
  /\ IF caller_query_empty
       THEN /\ caller_pc' = "set_clang"
            /\ UNCHANGED << caller_future, caller_req, caller_query_empty >>
       ELSE /\ caller_pc' = "idle"
            /\ caller_future' = "valid"
            /\ caller_req' = 0
            /\ caller_query_empty' = FALSE
  /\ UNCHANGED << threading_enabled_, clang_data_ready_,
                  clang_completions_task_, latest_clang_results_, lockVars,
                  interruption_requested, sort_pc, sort_task, sort_part,
                  clangVars, parseVars, slotVars, diagVars, calls,
                  last_context, terminated >>

\* Lines 283-301: clang_completions_task_.Set( task ), return the future.
CallerSetClangTask ==
  /\ ~terminated
  /\ caller_pc = "set_clang"
  /\ clang_completions_task_' = caller_req
  /\ clang_invocations' =
       Release(clang_invocations, {caller_req, clang_task})
  /\ caller_pc' = "idle"
  /\ caller_future' = "valid"
  /\ caller_req' = 0
  /\ caller_query_empty' = FALSE
  /\ UNCHANGED << threading_enabled_, clang_data_ready_, sorting_task_,
                  latest_clang_results_, lockVars, sortVars, clang_pc,
                  clang_task, clang_future, parseVars, slotVars, diagVars, calls,
                  last_context, terminated >>

(***************************************************************************)
(* DiagnosticsForFile                                                      *)
(***************************************************************************)

\* DiagnosticsForFile with a lock that waits instead of try_to_lock.
DiagnosticsBlockingLock ==
  IF clang_access_mutex_ # "none"
    THEN /\ diag_pc' = "blocked"
         /\ UNCHANGED << diag_result, clang_access_mutex_, analyzer_users >>
    ELSE /\ clang_access_mutex_' = "diag"
         /\ analyzer_users' = analyzer_users \cup {"diag"}
         /\ diag_pc' = "reading"
         /\ diag_result' = "none"

\* Lines 110-113: try_to_lock; without the lock return the vector as it was
\* declared, empty.  With the lock, lines 115-131 read the translation unit.
DiagnosticsTryLock ==
  IF clang_access_mutex_ # "none"
    THEN /\ diag_result' = "empty"
         /\ UNCHANGED << diag_pc, clang_access_mutex_, analyzer_users >>
    ELSE /\ clang_access_mutex_' = "diag"
         /\ analyzer_users' = analyzer_users \cup {"diag"}
         /\ diag_pc' = "reading"
         /\ diag_result' = "none"

DiagnosticsForFile ==
  /\ ~terminated
  /\ diag_pc = "idle"
  /\ DiagnosticsTryLock
  /\ UNCHANGED << threading_enabled_, sharedVars, results_writer,
                  results_readers, sortVars, clangVars, parseVars, slotVars,
                  callerVars, terminated >>

\* Lines 115-134: return what the analyzer holds for the file (nothing when
\* it has no unit for it); the lock is released on return.
DiagnosticsReturn ==
  /\ ~terminated
  /\ diag_pc = "reading"
  /\ diag_result' = "unit_diagnostics"
  /\ diag_pc' = "idle"
  /\ clang_access_mutex_' = "none"
  /\ analyzer_users' = analyzer_users \ {"diag"}
  /\ UNCHANGED << threading_enabled_, sharedVars, results_writer,
                  results_readers, sortVars, clangVars, parseVars, slotVars,
                  callerVars, terminated >>

(***************************************************************************)
(* FileParseThreadMain                                                     *)
(***************************************************************************)

\* Line 437: unique_lock on clang_access_mutex_ blocks until it is free.
ParseLock ==
  /\ clang_access_mutex_ = "none"
  /\ clang_access_mutex_' = "parse"

\* The analysis thread takes the task out of the slot before it runs it.
ParseTakeAndRun ==
  /\ ~terminated
  /\ parse_pc = "wait_task"
  /\ file_parse_task_ # NullParseTask
  /\ ParseLock
  /\ file_parse_task_' = NullParseTask
  /\ file_parse_notified' = FALSE
  /\ analyzer_users' = analyzer_users \cup {"parse"}
  /\ parse_pc' = "running"
  /\ UNCHANGED << threading_enabled_, sharedVars, results_writer,
                  results_readers, sortVars, clangVars,
                  callerVars, diagVars, terminated >>

\* Lines 427-438: the wait ends once file_parse_task_ is set (leaving the wait
\* changes nothing another thread can see); then take the analyzer lock and
\* call ( *file_parse_task_ )(), which runs UpdateTranslationUnit.
ParseLockAndRun ==
  /\ ~terminated
  /\ parse_pc = "wait_task"
  /\ file_parse_task_ # NullParseTask
  /\ ParseLock
  /\ file_parse_notified' = FALSE
  /\ analyzer_users' = analyzer_users \cup {"parse"}
  /\ parse_pc' = "running"
  /\ UNCHANGED << threading_enabled_, sharedVars, results_writer,
                  results_readers, sortVars, clangVars, file_parse_task_,
                  callerVars, diagVars, terminated >>

\* Line 439: the reparse is over and the lock is released.
ParseFinish ==
  /\ ~terminated
  /\ parse_pc = "running"
  /\ analyzer_users' = analyzer_users \ {"parse"}
  /\ clang_access_mutex_' = "none"
  /\ parse_pc' = "clear"
  /\ UNCHANGED << threading_enabled_, sharedVars, results_writer,
                  results_readers, sortVars, clangVars,
                  slotVars, callerVars, diagVars, terminated >>

\* Lines 441-442: file_parse_task_ = VoidTask().
ParseClear ==
  /\ ~terminated
  /\ parse_pc = "clear"
  /\ file_parse_task_' = NullParseTask
  /\ parse_pc' = "wait_task"
  /\ UNCHANGED << threading_enabled_, sharedVars, lockVars, sortVars,
                  clangVars, file_parse_notified,
                  callerVars, diagVars, terminated >>

(***************************************************************************)
(* ClangCompletionsThreadMain                                              *)
(***************************************************************************)

\* Lines 452-453: task = clang_completions_task_.Get().
ClangGet ==
  /\ ~terminated
  /\ clang_pc = "get"
  /\ LatestValueReady(clang_completions_task_)
  /\ clang_task' = clang_completions_task_
  /\ clang_completions_task_' = LatestValueAfterGet(clang_completions_task_)
  /\ clang_pc' = "check_parse"
  /\ UNCHANGED << threading_enabled_, clang_data_ready_, sorting_task_,
                  latest_clang_results_, lockVars, sortVars, clang_future,
                  clang_invocations, parseVars, slotVars, callerVars,
                  diagVars, terminated >>

\* Line 459: a file parse task is pending or running.
FileParsePending == file_parse_task_ # NullParseTask

\* Lines 457-461: with a file parse task set, continue; else go on.
ClangCheckFileParse ==
  /\ ~terminated
  /\ clang_pc = "check_parse"
  /\ clang_pc' = IF FileParsePending THEN "get" ELSE "lock"
  /\ clang_task' = IF FileParsePending THEN NoTask ELSE clang_task
  /\ clang_invocations' =
       IF FileParsePending
         THEN Release(clang_invocations, {clang_completions_task_})
         ELSE clang_invocations
  /\ UNCHANGED << threading_enabled_, sharedVars, lockVars, sortVars,
                  clang_future, parseVars, slotVars, callerVars, diagVars,
                  terminated >>

\* ClangLock without the wait: the extraction takes over a lock that is held.
ClangLockNoWait ==
  clang_access_mutex_' = "clang"

\* Line 464: unique_lock on clang_access_mutex_ blocks until it is free.
ClangLock ==
  /\ clang_access_mutex_ = "none"
  /\ clang_access_mutex_' = "clang"

\* Lines 464-465: take the analyzer lock and call ( *task )(), which runs
\* CandidatesForLocationInFile.  A task already started throws out of the
\* thread function.
ClangLockAndRun ==
  /\ ~terminated
  /\ clang_pc = "lock"
  /\ clang_invocations' = Invoked(clang_invocations, clang_task)
  /\ IF AlreadyStarted(clang_invocations, clang_task)
       THEN /\ clang_access_mutex_ = "none"
            /\ terminated' = TRUE
            /\ clang_pc' = "terminated"
            /\ UNCHANGED << clang_access_mutex_, analyzer_users >>
       ELSE /\ ClangLock
            /\ analyzer_users' = analyzer_users \cup {"clang"}
            /\ clang_pc' = "extracting"
            /\ UNCHANGED terminated
  /\ UNCHANGED << threading_enabled_, sharedVars, results_writer,
                  results_readers, sortVars, clang_task, clang_future,
                  parseVars, slotVars, callerVars, diagVars >>

\* What ( *task )() of line 465 leaves in the task's future: the candidates
\* of the request, or no candidates when the analyzer failed
\* (clang_codeCompleteAt, line 215, without results).
ExtractionOutcomes == {"candidates", "empty"}

\* The vector *future.get() yields: the request's candidates, or the empty
\* vector.
Published(task, future) == IF future = "candidates" THEN task ELSE 0

\* The scope of the analyzer lock extended over the publish: the extraction
\* ends and the lock stays with the extraction thread.
ClangFinishKeepsLock ==
  /\ ~terminated
  /\ clang_pc = "extracting"
  /\ \E outcome \in ExtractionOutcomes : clang_future' = outcome
  /\ clang_pc' = "write"
  /\ UNCHANGED << threading_enabled_, sharedVars, lockVars, sortVars,
                  clang_task, clang_invocations, parseVars, slotVars,
                  callerVars, diagVars, terminated >>

\* Lines 465-468: the extraction is over, with any of its outcomes, and the
\* lock is released.
ClangFinish ==
  /\ ~terminated
  /\ clang_pc = "extracting"
  /\ \E outcome \in ExtractionOutcomes : clang_future' = outcome
  /\ analyzer_users' = analyzer_users \ {"clang"}
  /\ clang_access_mutex_' = "none"
  /\ clang_pc' = "write"
  /\ UNCHANGED << threading_enabled_, sharedVars, results_writer,
                  results_readers, sortVars, clang_task, clang_invocations,
                  parseVars, slotVars, callerVars, diagVars, terminated >>

\* Lines 471-472: the unique_lock on latest_clang_results_shared_mutex_.
WriterLock ==
  /\ ~results_writer
  /\ results_readers = {}
  /\ results_writer' = TRUE

\* Lines 471-473: under the writer lock the assignment of *future.get() to
\* latest_clang_results_ starts.
ClangWriteBegin ==
  /\ ~terminated
  /\ clang_pc = "write"
  /\ WriterLock
  /\ latest_clang_results_' =
       << Published(clang_task, clang_future), latest_clang_results_[2] >>
  /\ clang_pc' = "writing"
  /\ UNCHANGED << threading_enabled_, clang_data_ready_, sorting_task_,
                  clang_completions_task_, clang_access_mutex_,
                  results_readers, analyzer_users, sortVars, clang_task,
                  clang_future, clang_invocations, parseVars, slotVars,
                  callerVars, diagVars, terminated >>

\* Lines 473-474: the assignment ends and the writer lock is released.
ClangWriteEnd ==
  /\ ~terminated
  /\ clang_pc = "writing"
  /\ latest_clang_results_' =
       << latest_clang_results_[1], Published(clang_task, clang_future) >>
  /\ results_writer' = FALSE
  /\ clang_pc' = "set_ready"
  /\ UNCHANGED << threading_enabled_, clang_data_ready_, sorting_task_,
                  clang_completions_task_, clang_access_mutex_,
                  results_readers, analyzer_users, sortVars, clang_task,
                  clang_future, clang_invocations, parseVars, slotVars,
                  callerVars, diagVars, terminated >>

\* Lines 476-481: clang_data_ready_ = true under clang_data_ready_mutex_, and
\* notify_all, which lets the waiting sorting threads see the flag.
ClangSetReady ==
  /\ ~terminated
  /\ clang_pc = "set_ready"
  /\ clang_data_ready_' = TRUE
  /\ clang_pc' = "get"
  /\ clang_task' = NoTask
  /\ clang_future' = "none"
  /\ clang_invocations' =
       Release(clang_invocations, {clang_completions_task_})
  /\ UNCHANGED << threading_enabled_, sorting_task_, clang_completions_task_,
                  latest_clang_results_, lockVars, sortVars, parseVars,
                  slotVars, callerVars, diagVars, terminated >>

(***************************************************************************)
(* SortingThreadMain                                                       *)
(***************************************************************************)

\* catch ( boost::thread_interrupted& ): the request is consumed and the
\* thread re-enters the loop.
Interrupted(t) ==
  /\ interruption_requested' = [interruption_requested EXCEPT ![t] = FALSE]
  /\ sort_pc' = [sort_pc EXCEPT ![t] = "check_ready"]

\* Lines 493-497: while ( !clang_data_ready_ ) wait.  wait() is an
\* interruption point on entry.
SortCheckReady(t) ==
  /\ ~terminated
  /\ sort_pc[t] = "check_ready"
  /\ IF clang_data_ready_
       THEN /\ sort_pc' = [sort_pc EXCEPT ![t] = "get"]
            /\ UNCHANGED interruption_requested
       ELSE IF interruption_requested[t]
         THEN Interrupted(t)
         ELSE /\ sort_pc' = [sort_pc EXCEPT ![t] = "waiting"]
              /\ UNCHANGED interruption_requested
  /\ UNCHANGED << threading_enabled_, sharedVars, lockVars, sort_task,
                  sort_part, sort_invocations, clangVars,
                  parseVars, slotVars, callerVars, diagVars, terminated >>

\* Line 497: the wait ends by interruption (thread_interrupted is thrown) or,
\* notified, with the flag seen true.
SortWake(t) ==
  /\ ~terminated
  /\ sort_pc[t] = "waiting"
  /\ IF interruption_requested[t]
       THEN Interrupted(t)
       ELSE /\ clang_data_ready_
            /\ sort_pc' = [sort_pc EXCEPT ![t] = "get"]
            /\ UNCHANGED interruption_requested
  /\ UNCHANGED << threading_enabled_, sharedVars, lockVars, sort_task,
                  sort_part, sort_invocations, clangVars,
                  parseVars, slotVars, callerVars, diagVars, terminated >>

\* Lines 501-502: task = sorting_task_.Get(); a Get that has to wait is an
\* interruption point.
SortGet(t) ==
  /\ ~terminated
  /\ sort_pc[t] = "get"
  /\ IF LatestValueReady(sorting_task_)
       THEN /\ sort_task' = [sort_task EXCEPT ![t] = sorting_task_]
            /\ sorting_task_' = LatestValueAfterGet(sorting_task_)
            /\ sort_pc' = [sort_pc EXCEPT ![t] = "lock_read"]
            /\ UNCHANGED interruption_requested
       ELSE /\ interruption_requested[t]
            /\ Interrupted(t)
            /\ UNCHANGED << sort_task, sorting_task_ >>
  /\ UNCHANGED << threading_enabled_, clang_data_ready_,
                  clang_completions_task_, latest_clang_results_, lockVars,
                  sort_part, sort_invocations, clangVars,
                  parseVars, slotVars, callerVars, diagVars, terminated >>

\* ReaderLock that does not wait for the writer.
ReaderLockNoWait(t) ==
  results_readers' = results_readers \cup {t}

\* Lines 505-506: the shared_lock on latest_clang_results_shared_mutex_.
ReaderLock(t) ==
  /\ ~results_writer
  /\ results_readers' = results_readers \cup {t}

\* Lines 505-508: take the reader lock and call ( *task )(), which starts
\* SortCandidatesForQuery over latest_clang_results_.  A task already started
\* throws task_already_started, which the catch clause does not catch.
SortLockAndRun(t) ==
  /\ ~terminated
  /\ sort_pc[t] = "lock_read"
  /\ sort_invocations' = Invoked(sort_invocations, sort_task[t])
  /\ IF AlreadyStarted(sort_invocations, sort_task[t])
       THEN /\ ~results_writer
            /\ terminated' = TRUE
            /\ sort_pc' = [sort_pc EXCEPT ![t] = "terminated"]
            /\ UNCHANGED << results_readers, sort_part >>
       ELSE /\ ReaderLock(t)
            /\ sort_part' = [sort_part EXCEPT ![t] = latest_clang_results_[1]]
            /\ sort_pc' = [sort_pc EXCEPT ![t] = "running"]
            /\ UNCHANGED terminated
  /\ UNCHANGED << threading_enabled_, sharedVars, clang_access_mutex_,
                  results_writer, analyzer_users, interruption_requested,
                  sort_task, clangVars, parseVars, slotVars,
                  callerVars, diagVars >>

\* Lines 508-509: the task reads the rest of latest_clang_results_, resolves
\* its future and the reader lock is released.
SortFinish(t) ==
  /\ ~terminated
  /\ sort_pc[t] = "running"
  /\ results_readers' = results_readers \ {t}
  /\ sort_part' = [sort_part EXCEPT ![t] = 0]
  /\ sort_task' = [sort_task EXCEPT ![t] = NoTask]
  /\ sort_invocations' =
       Release(sort_invocations,
               SortTaskRefs(sorting_task_, [sort_task EXCEPT ![t] = NoTask]))
  /\ sort_pc' = [sort_pc EXCEPT ![t] = "check_ready"]
  /\ UNCHANGED << threading_enabled_, sharedVars, clang_access_mutex_,
                  results_writer, analyzer_users, interruption_requested, clangVars, parseVars,
                  slotVars, callerVars, diagVars, terminated >>

(***************************************************************************)
(* The program                                                             *)
(***************************************************************************)
Next ==
  \/ EnableThreading
  \/ \E f \in Files : UpdateTranslationUnitAsync(f)
  \/ \E q \in BOOLEAN : Submit(q)
  \/ CallerProbe
  \/ CallerProbeReturn
  \/ CallerResetReady
  \/ CallerInterruptAll
  \/ CallerSetSortingTask
  \/ CallerSetClangTask
  \/ DiagnosticsForFile
  \/ DiagnosticsReturn
  \/ ParseLockAndRun
  \/ ParseFinish
  \/ ParseClear
  \/ ClangGet
  \/ ClangCheckFileParse
  \/ ClangLockAndRun
  \/ ClangFinish
  \/ ClangWriteBegin
  \/ ClangWriteEnd
  \/ ClangSetReady
  \/ \E t \in SortingThreads : SortCheckReady(t)
  \/ \E t \in SortingThreads : SortWake(t)
  \/ \E t \in SortingThreads : SortGet(t)
  \/ \E t \in SortingThreads : SortLockAndRun(t)
  \/ \E t \in SortingThreads : SortFinish(t)

Spec == Init /\ [][Next]_vars

(***************************************************************************)
(* Properties                                                              *)
(***************************************************************************)

\* C1: at most one of the background reparse, the candidate extraction and
\* the diagnostics read is in progress, and whoever touches the analyzer
\* state holds clang_access_mutex_.
C1_AnalyzerExclusive ==
  /\ Cardinality(analyzer_users) <= 1
  /\ \A u \in analyzer_users : clang_access_mutex_ = u

\* An extraction is running while a reparse is pending behind it.
C1_Witness ==
  /\ analyzer_users = {"clang"}
  /\ parse_pc = "wait_task"
  /\ FileParsePending

\* C2: the extraction thread never writes the cache while a ranking thread
\* runs a task, no ranking task starts during a write, and the candidates a
\* running task has read and those it has still to read come from one publish.
C2_CompleteRead ==
  /\ ~(results_writer /\ results_readers # {})
  /\ \A t \in SortingThreads :
       sort_pc[t] = "running" =>
         /\ t \in results_readers
         /\ clang_pc # "writing"
         /\ sort_part[t] = latest_clang_results_[2]

\* A ranking task is reading the first publish while the extraction thread
\* waits to write the second.
C2_Witness ==
  /\ clang_pc = "write"
  /\ clang_task = 2
  /\ \E t \in SortingThreads :
       sort_pc[t] = "running" /\ sort_part[t] = 1

\* C3: whenever a ranking thread is running a task, clang_data_ready_ is
\* true.
C3_RunningOnlyWhenReady ==
  \A t \in SortingThreads : sort_pc[t] = "running" => clang_data_ready_

\* C4: when clang_data_ready_ is true the cache holds the candidates of the
\* extraction submitted by the request that last reset the flag.
C4_ReadyOnlyIfFresh ==
  clang_data_ready_ =>
    latest_clang_results_ = << last_context, last_context >>

\* C5: no ranking task and no extraction task is invoked more than once.
C5_InvokedAtMostOnce ==
  \A r \in RequestIds :
    sort_invocations[r] <= 1 /\ clang_invocations[r] <= 1

\* C7: an empty-query request that finds clang_access_mutex_ held returns an
\* unresolved future in that step and changes neither the readiness flag, the
\* two mailboxes, the cache nor any thread's interruption flag.
C7_BusyProbeDrops ==
  [][ (caller_pc = "probe" /\ clang_access_mutex_ # "none"
         /\ caller_pc' # "probe")
      => /\ caller_pc' = "idle"
         /\ caller_future' = "unresolved"
         /\ UNCHANGED << clang_data_ready_, sorting_task_,
                         clang_completions_task_, latest_clang_results_,
                         interruption_requested >> ]_vars

\* The second request was dropped after the first was accepted, and the
\* extraction thread holds the lock.
C7_Witness ==
  /\ calls = 2
  /\ sorting_task_ = 1
  /\ caller_pc = "idle"
  /\ caller_future = "unresolved"
  /\ clang_access_mutex_ = "clang"

\* C8: without threading every request returns an unresolved future in one
\* step and changes no shared state.
C8_DisabledReturnsUnresolved ==
  [][ (~threading_enabled_ /\ calls' # calls)
      => /\ caller_pc' = "idle"
         /\ caller_future' = "unresolved"
         /\ UNCHANGED << clang_data_ready_, sorting_task_,
                         clang_completions_task_, latest_clang_results_,
                         interruption_requested, file_parse_task_ >> ]_vars

\* Two requests were made and answered before threading was enabled.
C8_Witness ==
  /\ ~threading_enabled_
  /\ calls = 2
  /\ caller_future = "unresolved"

\* C9: DiagnosticsForFile never waits for the lock, reads the analyzer state
\* only while it holds the lock, and while another thread holds the lock it
\* does not start reading and returns nothing but the empty vector.
C9_DiagnosticsNeverWaits ==
  /\ [](diag_pc \in {"idle", "reading"})
  /\ [](("diag" \in analyzer_users) => clang_access_mutex_ = "diag")
  /\ [][ (diag_pc = "idle" /\ clang_access_mutex_ # "none")
         => /\ diag_pc' = "idle"
            /\ diag_result' # diag_result => diag_result' = "empty" ]_vars

\* The read returned empty and the analysis thread holds the lock.
C9_Witness ==
  /\ diag_pc = "idle"
  /\ diag_result = "empty"
  /\ clang_access_mutex_ = "parse"

\* C10: while file_parse_task_ is set no step installs another task and no
\* step notifies the analysis thread; the slot keeps its task until it is
\* cleared.
C10_FullSlotKeepsTask ==
  [][ file_parse_task_ # NullParseTask
      => /\ file_parse_task_' \in {file_parse_task_, NullParseTask}
         /\ file_parse_notified' => file_parse_notified ]_vars

\* The slot holds a task the analysis thread is running, and the caller is
\* free to call UpdateTranslationUnitAsync.
C10_Witness ==
  /\ file_parse_task_ = "a.c"
  /\ parse_pc = "running"
  /\ ~file_parse_notified
  /\ caller_pc = "idle"
  /\ ~terminated

(***************************************************************************)
(* Fair scheduling: every thread that can take a step of its loop takes   *)
(* it, a thread waiting for a lock that is free again and again gets it,   *)
(* and a call that has started returns.  Nothing obliges the callers to    *)
(* make a call.                                                            *)
(***************************************************************************)
Fairness ==
  /\ WF_vars(CallerProbe)
  /\ WF_vars(CallerProbeReturn)
  /\ WF_vars(CallerResetReady)
  /\ WF_vars(CallerInterruptAll)
  /\ WF_vars(CallerSetSortingTask)
  /\ WF_vars(CallerSetClangTask)
  /\ WF_vars(DiagnosticsReturn)
  /\ SF_vars(ParseLockAndRun)
  /\ WF_vars(ParseFinish)
  /\ WF_vars(ParseClear)
  /\ WF_vars(ClangGet)
  /\ WF_vars(ClangCheckFileParse)
  /\ SF_vars(ClangLockAndRun)
  /\ WF_vars(ClangFinish)
  /\ SF_vars(ClangWriteBegin)
  /\ WF_vars(ClangWriteEnd)
  /\ WF_vars(ClangSetReady)
  /\ \A t \in SortingThreads :
       /\ WF_vars(SortCheckReady(t))
       /\ WF_vars(SortWake(t))
       /\ WF_vars(SortGet(t))
       /\ SF_vars(SortLockAndRun(t))
       /\ WF_vars(SortFinish(t))

FairSpec == Init /\ [][Next]_vars /\ Fairness

\* A step of UpdateTranslationUnitAsync that installs a task.
UpdateInstalls ==
  file_parse_task_ = NullParseTask /\ file_parse_task_' # NullParseTask

\* An accepted empty-query request is about to install its extraction task
\* and return its future.
EmptyQueryAccepted == caller_pc = "set_clang"

\* C6: under fair scheduling, if from some point on no update is installed,
\* every accepted empty-query request is followed by clang_data_ready_ being
\* true and by a ranking thread running a ranking task.
C6_AcceptedRequestIsRanked ==
  <>[][~UpdateInstalls]_vars =>
    /\ EmptyQueryAccepted ~> clang_data_ready_
    /\ EmptyQueryAccepted ~> (\E t \in SortingThreads : sort_pc[t] = "running")

C13_NonEmptyQueryOnlySetsSortingTask ==
  [][ /\ (threading_enabled_ /\ calls' # calls /\ ~caller_query_empty')
           => /\ caller_pc' = "set_sorting"
              /\ UNCHANGED << clang_access_mutex_, clang_data_ready_,
                              interruption_requested, sorting_task_,
                              clang_completions_task_, latest_clang_results_ >>
      /\ (caller_pc = "set_sorting" /\ ~caller_query_empty
            /\ caller_pc' # caller_pc)
           => /\ caller_pc' = "idle"
              /\ caller_future' = "valid"
              /\ sorting_task_' = caller_req
              /\ UNCHANGED << clang_access_mutex_, clang_data_ready_,
                              interruption_requested,
                              clang_completions_task_,
                              latest_clang_results_ >> ]_vars

\* A request with a non-empty query was accepted while the analysis thread
\* held the analyzer lock; no extraction was ever submitted.
C13_Witness ==
  /\ caller_pc = "idle"
  /\ caller_future = "valid"
  /\ sorting_task_ = calls
  /\ clang_completions_task_ = NoTask
  /\ clang_access_mutex_ = "parse"

\* C14: a request sets its sorting task before its extraction task, so the
\* sorting mailbox never holds a task older than the extraction task in the
\* extraction mailbox or in the hands of the extraction thread, in particular
\* when that thread sets clang_data_ready_.
C14_SortingTaskSetFirst ==
  /\ caller_pc = "set_clang" => sorting_task_ = caller_req
  /\ clang_completions_task_ <= sorting_task_
  /\ clang_task <= sorting_task_

\* The extraction of request 1 is about to set the flag and the sorting
\* mailbox holds the task of request 2.
C14_Witness ==
  /\ clang_pc = "set_ready"
  /\ clang_task = 1
  /\ sorting_task_ = 2

\* C15: the extraction thread neither waits for nor holds clang_access_mutex_
\* while file_parse_task_ is set, and a cycle it skips because the slot is
\* set changes neither the cache nor the readiness flag.
C15_ExtractionDefersToParse ==
  /\ [](clang_pc \in {"lock", "extracting"} => ~FileParsePending)
  /\ [][ (clang_pc = "check_parse" /\ FileParsePending
            /\ clang_pc' # clang_pc)
         => /\ clang_pc' = "get"
            /\ UNCHANGED << latest_clang_results_, clang_data_ready_,
                            clang_access_mutex_ >> ]_vars

\* C16: the analysis thread runs the task of the slot under
\* clang_access_mutex_ with the slot still set, the slot is emptied only by
\* that thread and only once the run is over, a task is installed only while
\* the thread is between two runs (so each task is run exactly once before it
\* is cleared), and with the slot empty a call of UpdateTranslationUnitAsync
\* installs its task.
C16_SlotHeldThroughReparse ==
  /\ [](parse_pc = "running"
          => /\ file_parse_task_ # NullParseTask
             /\ clang_access_mutex_ = "parse"
             /\ "parse" \in analyzer_users)
  /\ [](parse_pc = "clear" => file_parse_task_ # NullParseTask)
  /\ [][ (file_parse_task_ # NullParseTask
            /\ file_parse_task_' = NullParseTask)
         => parse_pc = "clear" /\ parse_pc' = "wait_task" ]_vars
  /\ [][ (file_parse_task_ = NullParseTask
            /\ file_parse_task_' # NullParseTask)
         => parse_pc \in {"not_started", "wait_task"}
            /\ parse_pc' = parse_pc ]_vars
  /\ [][ parse_pc' = "running"
         => /\ parse_pc \in {"wait_task", "running"}
            /\ file_parse_task_' = file_parse_task_ ]_vars
  /\ []((file_parse_task_ = NullParseTask /\ caller_pc = "idle"
           /\ ~terminated)
          => \A f \in Files :
               ENABLED (UpdateTranslationUnitAsync(f)
                          /\ file_parse_task_' = f))

\* The reparse of b.c is over, the slot still holds its task and the
\* extraction thread has taken the lock the analysis thread released.
C16_Witness ==
  /\ parse_pc = "clear"
  /\ file_parse_task_ = "b.c"
  /\ clang_access_mutex_ = "clang"

\* C11 as stated: a call of UpdateTranslationUnitAsync for filename g is
\* dropped when the slot holds a task for g, and installs its task when the
\* slot holds a task for another filename.
C11_CoalescedPerFilename ==
  (caller_pc = "idle" /\ ~terminated)
    => \A g \in Files :
         /\ file_parse_task_ = g
              => ~ENABLED (UpdateTranslationUnitAsync(g)
                             /\ file_parse_task_' # file_parse_task_)
         /\ file_parse_task_ \notin {NullParseTask, g}
              => ENABLED (UpdateTranslationUnitAsync(g) /\ UpdateInstall(g))

\* C11 as amended: a call of UpdateTranslationUnitAsync is dropped whenever
\* the slot holds a task, whatever the filenames of the task and of the call,
\* and installs its task when the slot is empty.
C11_CoalescedWhateverFilename ==
  []((caller_pc = "idle" /\ ~terminated)
       => \A g \in Files :
            /\ file_parse_task_ # NullParseTask
                 => ~ENABLED (UpdateTranslationUnitAsync(g)
                                /\ << file_parse_task_, file_parse_notified >>'
                                     # << file_parse_task_,
                                          file_parse_notified >>)
            /\ file_parse_task_ = NullParseTask
                 => ENABLED (UpdateTranslationUnitAsync(g)
                               /\ UpdateInstall(g)))

\* The slot holds the task for a.c, not yet taken by the analysis thread, and
\* the caller is free to call UpdateTranslationUnitAsync for b.c.
C11_Witness ==
  /\ file_parse_task_ = "a.c"
  /\ file_parse_notified
  /\ parse_pc = "wait_task"
  /\ caller_pc = "idle"
  /\ calls = 1
  /\ ~terminated

\* C17: the interruption request of a ranking thread is consumed only at a
\* wait (on the readiness condition or in Get), and consuming it sends the
\* thread to the start of its loop; a thread waiting on the readiness
\* condition with a request pending leaves the wait only that way; and no
\* ranking thread ever terminates.
C17_InterruptionRestartsLoop ==
  /\ [](\A t \in SortingThreads : sort_pc[t] # "terminated")
  /\ [][ \A t \in SortingThreads :
           /\ (interruption_requested[t] /\ ~interruption_requested'[t])
                => /\ sort_pc[t] \in {"check_ready", "waiting", "get"}
                   /\ sort_pc'[t] = "check_ready"
                   /\ UNCHANGED << sort_invocations, results_readers >>
           /\ (sort_pc[t] = "waiting" /\ interruption_requested[t]
                 /\ sort_pc'[t] # sort_pc[t])
                => sort_pc'[t] = "check_ready" ]_vars

\* C18: from the moment an extraction has failed until the extraction thread
\* is back at the top of its loop, no step of that thread changes the cache
\* or the readiness flag, and the step that ends the cycle leaves the thread
\* at the top of its loop.
C18_FailedExtractionNotPublished ==
  [][ (clang_future = "empty" /\ clang_pc' # clang_pc)
      => /\ UNCHANGED << latest_clang_results_, clang_data_ready_ >>
         /\ clang_pc' \in {"writing", "set_ready", "get"} ]_vars

\* C19: a thread that is about to take a lock, or waits for one, holds no
\* other: the analysis thread holds clang_access_mutex_ only while it runs
\* its task, the extraction thread holds it only while it extracts and holds
\* the writer lock only while it assigns the cache, a ranking thread holds the
\* reader lock only while it runs its task; and whoever holds a lock can take
\* the step that releases it, so no set of threads waits in a cycle.
C19_NoLockOrderDeadlock ==
  /\ [](clang_access_mutex_ = "parse" => parse_pc = "running")
  /\ [](clang_access_mutex_ = "clang" => clang_pc = "extracting")
  /\ [](clang_access_mutex_ = "caller" => caller_pc = "probe_locked")
  /\ [](clang_access_mutex_ = "diag" => diag_pc = "reading")
  /\ [](results_writer => clang_pc = "writing")
  /\ [](\A t \in SortingThreads :
          t \in results_readers => sort_pc[t] = "running")
  /\ [](~terminated =>
          /\ clang_access_mutex_ = "parse" => ENABLED ParseFinish
          /\ clang_access_mutex_ = "clang" => ENABLED ClangFinish
          /\ clang_access_mutex_ = "caller" => ENABLED CallerProbeReturn
          /\ clang_access_mutex_ = "diag" => ENABLED DiagnosticsReturn
          /\ results_writer => ENABLED ClangWriteEnd
          /\ \A t \in SortingThreads :
               t \in results_readers => ENABLED SortFinish(t))

\* The extraction thread waits for the writer lock that a ranking thread holds
\* as a reader, while the analysis thread holds clang_access_mutex_.
C19_Witness ==
  /\ clang_pc = "write"
  /\ results_readers # {}
  /\ clang_access_mutex_ = "parse"
  /\ ~terminated

\* C20: a request holds clang_access_mutex_ only inside the busy probe, not
\* while it resets readiness, interrupts or writes a mailbox; a request that
\* has started can always take its next step, whoever holds the analyzer lock
\* or the cache lock; and every step of a request brings it nearer to its
\* return.
C20_CallerNeverWaits ==
  /\ [](caller_pc \in {"reset", "interrupt", "set_sorting", "set_clang"}
          => clang_access_mutex_ # "caller")
  /\ []((caller_pc # "idle" /\ ~terminated)
          => ENABLED (CallerProbe \/ CallerProbeReturn \/ CallerResetReady
                        \/ CallerInterruptAll \/ CallerSetSortingTask
                        \/ CallerSetClangTask))
  /\ [][ (caller_pc # "idle" /\ caller_pc' # caller_pc)
         => \E before, after \in 0..6 :
              /\ before = (CASE caller_pc = "probe" -> 6
                             [] caller_pc = "probe_locked" -> 5
                             [] caller_pc = "reset" -> 4
                             [] caller_pc = "interrupt" -> 3
                             [] caller_pc = "set_sorting" -> 2
                             [] caller_pc = "set_clang" -> 1
                             [] OTHER -> 0)
              /\ after = (CASE caller_pc' = "probe" -> 6
                            [] caller_pc' = "probe_locked" -> 5
                            [] caller_pc' = "reset" -> 4
                            [] caller_pc' = "interrupt" -> 3
                            [] caller_pc' = "set_sorting" -> 2
                            [] caller_pc' = "set_clang" -> 1
                            [] OTHER -> 0)
              /\ after < before ]_vars

\* A request installs its extraction task while the analysis thread holds
\* the analyzer lock and the extraction thread is assigning the cache.
C20_Witness ==
  /\ caller_pc = "set_clang"
  /\ clang_access_mutex_ = "parse"
  /\ results_writer

====
